---- MODULE Spec2Model ----
(***************************************************************************)
(* A model of the strat-engine scanner: the closed-bar oracle              *)
(* (strat_signals.last_closed_index), the bar classifier, the setup        *)
(* detector, the bias scorer with the alignment tag of scan_ticker, and    *)
(* the universe rotation of universe/loader.load_universe.                 *)
(*                                                                         *)
(* Time is counted in half hours of America/New_York wall-clock time; day  *)
(* d begins at d * DAY.  Prices are counted in thirds of a cent, so that   *)
(* rounding to two decimals (_fmt2) never meets a tie.                     *)
(***************************************************************************)
EXTENDS Integers, Sequences, FiniteSets, TLC

VARIABLES
    tf,         \* timeframe handed to last_closed_index / the detector
    now,        \* pd.Timestamp.now(tz=NY) read by last_closed_index
    df_tf,      \* the frame handed in: a sequence of rows, oldest first
    built,      \* "none" | "any" (an arbitrary frame) | "feed" (built from vendor bars)
    last_idx,   \* result of last_closed_index: -1 or -2 (0 before any call)
    signals,    \* result of analyze_last_closed_setups
    \* main.compute_bias_score and main.scan_ticker
    ctx_closed, \* the closed context, a sequence of <<timeframe, strat>> in dict order
    bias_score, \* result of compute_bias_score
    pending,    \* directions of the signals scan_ticker has still to turn into rows
    aligned,    \* the local "aligned" of scan_ticker: "None", "True" or "False"
    rows,       \* the result rows scan_ticker has appended
    scan_pc,    \* "idle" | "scored" | "loop" | "tagged" | "raised" | "returned"
    \* universe.loader.load_universe
    cfg,            \* the constants of config.py, scaled down
    stocks_df,      \* the cached stocks table: rows of Symbol and market_cap_int
    etfs_df,        \* the cached ETF table: its Symbol column
    state_file,     \* cache/universe/state.json: whether it exists, and its offset
    offset_read,    \* the offset the last run read from the state
    expansion_pool, \* the expansion pool of the last run
    priority_batch, \* the priority batch of the last run
    rotation_batch, \* the rotation batch of the last run
    universe,       \* the universe the last run returned
    universes,      \* the universes returned by all runs, in order
    batches,        \* the rotation batches of all runs, in order
    offsets,        \* the offsets persisted by all runs, in order
    runs,           \* number of runs of load_universe so far
    \* main.main, lines 444-445: publication of the artifacts
    pub_pc,         \* the file and stage being worked on, or idle, done, failed
    pub_run,        \* number of the run that is publishing
    files,          \* content of latest.json, latest.csv and context.csv
    tmp_files,      \* content of latest.json.tmp and latest.csv.tmp
    prior_files,    \* the published files as they were when the run began to publish
    failed_at,      \* the file and stage at which the last failure struck
    reader_saw,     \* what the concurrent reader's last read returned
    \* loaders.yahoo.load_ohlc and the feed checks of main.build_timeframe_frames
    ld_pc,          \* "idle" | "fetching" | "fetched" | "returned" | "raised" | "framed"
    ld_interval,    \* the interval asked for
    ld_period,      \* the caller's period hint ("" for none)
    cache,          \* the cache file of the ticker and interval
    cache0,         \* the cache file as load_ohlc found it
    chain,          \* the periods _download_with_fallback has still to try
    requests,       \* the periods asked of the vendor so far, in order
    vendor_said,    \* the vendor's answer to the last request
    ld_data,        \* the frame _download_with_fallback returned
    ld_result,      \* the frame load_ohlc returned
    cache_write,    \* "none" | "ok" | "failed": the cache write of load_ohlc
    derived_ok,     \* ok_60 / ok_1d of build_timeframe_frames for the feed
    late_workers,   \* the worker threads abandoned at their deadline, and their "out"
    \* main.main: one run, from the reference tables to the published files
    main_pc,        \* "idle" | "tables" | "state_open" | "state_dump" | "scan" | "done"
                    \* | "aborted" | "crashed"
    main_run,       \* number of runs of main() begun
    table_cache,    \* stocks_biggest.csv, etfs_all.csv: "absent" | "fresh" | "stale"
    refresh_said,   \* what _fetch_table answered for each table ("none": not asked)
    tables_from,    \* where each table of the run came from: "none" | "cache" | "fetched"
                    \* | "raised"
    state_chunks,   \* how many of the CHUNKS of state.json's text are on disk
    state_prev,     \* state.json as it was when the run began
    state_next,     \* the offset the run persists
    tickers,        \* the universe main() scans
    scan_log,       \* per ticker scanned in this run: what scan_ticker did
    all_rows,       \* all_rows of main()
    context_rows,   \* context_rows of main()
    last_run,       \* cache/meta/last_run.json: the recorded timestamp per timeframe
    closed_ts,      \* the last-closed timestamp of each reference frame, as of now
    closed_at_done, \* closed_ts as it was when the last completed run ended
    stale_run,      \* the run began after a completed run with no new closed bar
    \* timeframes.resample.resample_timeframe
    rs_tf,          \* the target timeframe
    rs_in,          \* the input frame: its first label, its rows, their spacing
    rs_out          \* the outcome: raised, or the labels of the frame returned

detectVars == <<tf, now, df_tf, built, last_idx, signals>>
scanVars == <<ctx_closed, bias_score, pending, aligned, rows, scan_pc>>
uniVars == <<cfg, stocks_df, etfs_df, state_file, offset_read, expansion_pool,
             priority_batch, rotation_batch, universe, universes, batches, offsets, runs>>
pubVars == <<pub_pc, pub_run, files, tmp_files, prior_files, failed_at, reader_saw>>
loadVars == <<ld_pc, ld_interval, ld_period, cache, cache0, chain, requests, vendor_said,
              ld_data, ld_result, cache_write, derived_ok, late_workers>>
mainVars == <<main_pc, main_run, table_cache, refresh_said, tables_from, state_chunks,
              state_prev, state_next, tickers, scan_log, all_rows, context_rows, last_run,
              closed_ts, closed_at_done, stale_run>>
resVars == <<rs_tf, rs_in, rs_out>>
vars == <<detectVars, scanVars, uniVars, pubVars, loadVars, mainVars, resVars>>

\* What the operations of one component leave alone
nonDetect == <<scanVars, uniVars, pubVars, loadVars, mainVars, resVars>>
nonScan == <<detectVars, uniVars, pubVars, loadVars, mainVars, resVars>>
nonUni == <<detectVars, scanVars, pubVars, loadVars, mainVars, resVars>>
nonPub == <<detectVars, scanVars, uniVars, loadVars, mainVars, resVars>>
nonLoad == <<detectVars, scanVars, uniVars, pubVars, mainVars, resVars>>
nonRes == <<detectVars, scanVars, uniVars, pubVars, loadVars, mainVars>>
\* main() runs load_universe and publishes: what it leaves alone
nonMain == <<detectVars, scanVars, loadVars, resVars>>

----------------------------------------------------------------------------
(* Bounds *)

MaxDay == 3        \* "now" ranges over days 0..MaxDay
MaxPx == 3         \* bar highs and lows range over PX_BASE .. PX_BASE + MaxPx
MaxSignals == 2    \* signals the detector hands to scan_ticker for one symbol
MaxRuns == 3       \* consecutive runs of load_universe
MaxOffset == 5     \* the offset found in state.json ranges over 0 .. MaxOffset
MaxTickers == 4    \* MAX_TICKERS_PER_RUN ranges over 1 .. MaxTickers
MaxPublishes == 2  \* runs of main() that reach the publication
HistWeeks == 3     \* the daily feed reaches back this many weeks before day 0

----------------------------------------------------------------------------
(* Time *)

HOUR == 2
DAY == 24 * HOUR
HALF_HOUR == HOUR \div 2

Times == 0 .. ((MaxDay + 1) * DAY - 1)

Max(S) == CHOOSE x \in S : \A y \in S : y <= x

\* ts.date()
DateOf(ts) == ts \div DAY

\* Day 0 is a Wednesday; weekdays are numbered from Monday = 0.
Weekday(d) == (d + 2) % 7
FRIDAY == 4

\* _to_ny: timestamps are NY wall-clock already (naive labels are localized,
\* aware ones converted), so the conversion leaves the instant alone.
to_ny(ts) == ts

\* (mutant) the daily close taken at 16:00 instead of 16:30
market_close_dt_at_1600(date_ts) == DateOf(to_ny(date_ts)) * DAY + 16 * HOUR

\* _market_close_dt: 16:30 on the date of the timestamp
market_close_dt(date_ts) == DateOf(to_ny(date_ts)) * DAY + 16 * HOUR + HALF_HOUR

\* Python's negative positional index df.iloc[i], i < 0
Iloc(df, i) == df[Len(df) + 1 + i]

----------------------------------------------------------------------------
(* strat_signals.last_closed_index *)

TARGET_TFS == {"Y", "Q", "M", "W", "D", "4H", "3H", "2H", "1H"}

\* (mutant) the 1H label read as the bar's end, like the resampled intraday bars
last_closed_index_1H_as_bar_end(t, df, n) ==
    IF df = <<>> THEN -1
    ELSE LET ts == to_ny(Iloc(df, -1).timestamp) IN
         IF t \in {"W", "M", "Q", "Y"}
           THEN IF ts > n THEN -2
                ELSE IF n < market_close_dt(ts) THEN -2 ELSE -1
         ELSE IF t = "D"
           THEN IF DateOf(ts) = DateOf(n) /\ n < market_close_dt(ts) THEN -2 ELSE -1
         ELSE IF t \in {"1H", "2H", "3H", "4H"}
           THEN IF n < ts THEN -2 ELSE -1
         ELSE -1

\* (mutant) the period bars W/M/Q/Y taken as closed as soon as their label is reached
last_closed_index_no_close_anchor(t, df, n) ==
    IF df = <<>> THEN -1
    ELSE LET ts == to_ny(Iloc(df, -1).timestamp) IN
         IF t \in {"W", "M", "Q", "Y"}
           THEN IF ts > n THEN -2 ELSE -1
         ELSE IF t = "D"
           THEN IF DateOf(ts) = DateOf(n) /\ n < market_close_dt(ts) THEN -2 ELSE -1
         ELSE IF t = "1H"
           THEN IF n < ts + HOUR THEN -2 ELSE -1
         ELSE IF t \in {"2H", "3H", "4H"}
           THEN IF n < ts THEN -2 ELSE -1
         ELSE -1

last_closed_index(t, df, n) ==
    IF df = <<>> THEN -1
    ELSE LET ts_last == to_ny(Iloc(df, -1).timestamp) IN
         IF t \in {"W", "M", "Q", "Y"}
           THEN IF ts_last > n THEN -2
                ELSE IF n < market_close_dt(ts_last) THEN -2
                ELSE -1
         ELSE IF t = "D"
           THEN IF DateOf(ts_last) = DateOf(n) /\ n < market_close_dt(ts_last)
                  THEN -2
                  ELSE -1
         ELSE IF t = "1H"
           THEN LET bar_end == ts_last + HOUR IN
                IF n < bar_end THEN -2 ELSE -1
         ELSE IF t \in {"2H", "3H", "4H"}
           THEN IF n < ts_last THEN -2 ELSE -1
         ELSE -1

----------------------------------------------------------------------------
(* The frames the pipeline builds (main.build_timeframe_frames): the two    *)
(* vendor feeds, passed on directly for D and 1H and resampled with         *)
(* right-closed, right-labelled buckets for the other timeframes.           *)

\* The daily feed reaches back HistWeeks weeks, the 60m feed one week.
TradingDays == {d \in (0 - 7 * HistWeeks) .. MaxDay : Weekday(d) <= 4}
TradingDays60m == {d \in TradingDays : d >= 0 - 7}

\* The vendor's daily bars are labelled with the midnight of their date, its
\* 60m bars with their start, 09:30 .. 15:30; a bar exists once it has begun.
OPEN_SLOT == 9 * HOUR + HALF_HOUR
Feed1d(cutoff) == {d * DAY : d \in {e \in TradingDays : e * DAY <= cutoff}}
Feed60m(cutoff) ==
    {s \in {d * DAY + OPEN_SLOT + k * HOUR : d \in TradingDays60m, k \in 0 .. 6} :
        s <= cutoff}

\* Bucket width of the fixed-width rules "2h", "3h", "4h"
RuleWidth(t) == CASE t = "2H" -> 2 * HOUR [] t = "3H" -> 3 * HOUR [] t = "4H" -> 4 * HOUR

\* resample(rule, label="right", closed="right", origin="start_day",
\* offset="30min"): the bucket edges are 00:30 + j * width, and a bar stamped
\* s falls in the bucket (e - width, e] and takes the label e.
IntradayLabel(t, s) ==
    LET w == RuleWidth(t)
        k == (s - HALF_HOUR + w - 1) \div w
    IN  k * w + HALF_HOUR

\* resample("W-FRI", label="right", closed="right"): the Friday on or after
\* the bar's date, at midnight.
WeekLabel(s) ==
    LET d == DateOf(s) IN (d + ((FRIDAY - Weekday(d)) % 7)) * DAY

\* resample("ME" | "QE" | "YE"): the period end on or after the bar's date.
\* pend is the day on which the period around the window ends; periods are
\* at least MIN_PERIOD_DAYS long.
MIN_PERIOD_DAYS == 4 * 7
PeriodLabel(s, pend) ==
    IF DateOf(s) <= pend THEN pend * DAY ELSE (pend + MIN_PERIOD_DAYS) * DAY

resample_labels(t, feed, pend) ==
    CASE t \in {"2H", "3H", "4H"} -> {IntradayLabel(t, s) : s \in feed}
      [] t = "W" -> {WeekLabel(s) : s \in feed}
      [] t \in {"M", "Q", "Y"} ->
            {PeriodLabel(s, pend) : s \in feed}
               \cup {(pend - j * MIN_PERIOD_DAYS) * DAY : j \in 1 .. 3}

\* The last three rows of a frame with the given labels, oldest first
Tail3(S) ==
    LET a == Max(S)
        b == Max(S \ {a})
        c == Max(S \ {a, b})
    IN  <<[timestamp |-> c], [timestamp |-> b], [timestamp |-> a]>>

build_timeframe_labels(t, cutoff, pend) ==
    CASE t = "D" -> Feed1d(cutoff)
      [] t = "1H" -> Feed60m(cutoff)
      [] t \in {"2H", "3H", "4H"} -> resample_labels(t, Feed60m(cutoff), pend)
      [] OTHER -> resample_labels(t, Feed1d(cutoff), pend)

----------------------------------------------------------------------------
(* Operations of the closed-bar oracle *)

\* A file's content: the run that wrote it and how many of its CHUNKS are on
\* disk; run 0 stands for what was published before the first run.
CHUNKS == 2
Published(run) == [v |-> run, n |-> CHUNKS]
NoFile == [v |-> 0, n |-> 0]
IdleStage == [file |-> "none", stage |-> "none"]

DetectIdle ==
    /\ tf = "D"
    /\ now = 0
    /\ df_tf = <<>>
    /\ built = "none"
    /\ last_idx = 0
    /\ signals = <<>>

ScanIdle ==
    /\ ctx_closed = <<>>
    /\ bias_score = 0
    /\ pending = <<>>
    /\ aligned = "None"
    /\ rows = <<>>
    /\ scan_pc = "idle"

UniverseIdle ==
    /\ offset_read = 0
    /\ expansion_pool = <<>>
    /\ priority_batch = <<>>
    /\ rotation_batch = <<>>
    /\ universe = <<>>
    /\ universes = <<>>
    /\ batches = <<>>
    /\ offsets = <<>>
    /\ runs = 0

PublishIdle ==
    /\ pub_pc = [file |-> "none", stage |-> "idle"]
    /\ pub_run = 0
    /\ files = [f \in {"json", "csv", "ctx"} |-> Published(0)]
    /\ tmp_files = [f \in {"json", "csv"} |-> NoFile]
    /\ prior_files = [f \in {"json", "csv", "ctx"} |-> Published(0)]
    /\ failed_at = IdleStage
    /\ reader_saw = Published(0)

\* A frame of bars: how many rows and their median spacing; no rows = empty
EmptyFrame == [rows |-> 0, spacing |-> 0]
NoAnswer == [kind |-> "none", rows |-> 0, spacing |-> 0]
NoCache == [exists |-> FALSE, age |-> 0, readable |-> FALSE, frame |-> EmptyFrame]

LoadIdle ==
    /\ ld_pc = "idle"
    /\ ld_interval = "1d"
    /\ ld_period = ""
    /\ cache = NoCache
    /\ cache0 = NoCache
    /\ chain = <<>>
    /\ requests = <<>>
    /\ vendor_said = NoAnswer
    /\ ld_data = EmptyFrame
    /\ ld_result = EmptyFrame
    /\ cache_write = "none"
    /\ derived_ok = FALSE
    /\ late_workers = <<>>

\* The reference tables and the timeframes the run gate watches
TABLES == {"stocks", "etfs"}
GATE_TFS == {"D", "1H"}
NoTs == 0 - 1

MainIdle ==
    /\ main_pc = "idle"
    /\ main_run = 0
    /\ refresh_said = [t \in TABLES |-> "none"]
    /\ tables_from = [t \in TABLES |-> "none"]
    /\ state_chunks = CHUNKS
    /\ state_next = 0
    /\ tickers = <<>>
    /\ scan_log = <<>>
    /\ all_rows = <<>>
    /\ context_rows = <<>>
    /\ last_run = [t \in GATE_TFS |-> NoTs]
    /\ closed_ts = [t \in GATE_TFS |-> 0]
    /\ closed_at_done = [t \in GATE_TFS |-> NoTs]
    /\ stale_run = FALSE

ResampleIdle ==
    /\ rs_tf = "W"
    /\ rs_in = [start |-> 0, rows |-> 0, spacing |-> 0]
    /\ rs_out = [raised |-> FALSE, labels |-> {}]

Init ==
    /\ DetectIdle
    /\ MainIdle
    /\ table_cache = [t \in TABLES |-> "fresh"]
    /\ state_prev = [exists |-> FALSE, offset |-> 0]
    /\ ResampleIdle
    /\ LoadIdle
    /\ ScanIdle
    /\ cfg = [PRIORITY_TOP_STOCKS |-> 0, PRIORITY_PER_RUN |-> 0, MAX_TICKERS_PER_RUN |-> 1,
              DEV_MODE |-> FALSE, DEV_TICKERS_LIMIT |-> 1]
    /\ stocks_df = <<>>
    /\ etfs_df = <<>>
    /\ state_file = [exists |-> FALSE, offset |-> 0]
    /\ UniverseIdle
    /\ PublishIdle

\* Labels an arbitrary frame may end with: midnight, 09:30, 10:30, 16:30
LabelSlots == {0, OPEN_SLOT, OPEN_SLOT + HOUR, 16 * HOUR + HALF_HOUR}
AnyLabels == {d * DAY + s : d \in 0 .. MaxDay, s \in LabelSlots}
RowGaps == {HOUR, DAY}

\* last_closed_index on an arbitrary three-row frame
OracleCall ==
    /\ built = "none"
    /\ \E t \in TARGET_TFS, n \in Times, l \in AnyLabels, g \in RowGaps :
        LET df == <<[timestamp |-> l - 2 * g], [timestamp |-> l - g],
                    [timestamp |-> l]>>
        IN  /\ tf' = t
            /\ now' = n
            /\ df_tf' = df
            /\ built' = "any"
            /\ last_idx' = last_closed_index(t, df, n)
            /\ UNCHANGED <<signals, nonDetect>>

\* The vendor's newest bar may lag behind the clock
FeedLags == {0, HOUR, DAY}

\* last_closed_index on a frame built from the vendor feeds
OracleCallOnFeed ==
    /\ built = "none"
    /\ \E t \in TARGET_TFS, n \in Times, lag \in FeedLags :
      \E pend \in (IF t \in {"M", "Q", "Y"} THEN -1 .. (MaxDay + 1) ELSE {0}) :
        LET labels == build_timeframe_labels(t, n - lag, pend)
            df == Tail3(labels)
        IN  /\ Cardinality(labels) >= 3
            /\ tf' = t
            /\ now' = n
            /\ df_tf' = df
            /\ built' = "feed"
            /\ last_idx' = last_closed_index(t, df, n)
            /\ UNCHANGED <<signals, nonDetect>>

NextOracle == OracleCall \/ OracleCallOnFeed

SpecOracle == Init /\ [][NextOracle]_vars

----------------------------------------------------------------------------
(* Properties of the closed-bar oracle *)

OracleCalled == built \in {"any", "feed"}
LastLabel == Iloc(df_tf, -1).timestamp
CloseOn(label) == (label \div DAY) * DAY + 16 * HOUR + HALF_HOUR

\* The closedness rule of each timeframe
IsClosed(t, label, n) ==
    CASE t \in {"Y", "Q", "M", "W"} -> ~(label > n \/ n < CloseOn(label))
      [] t = "D" -> ~((label \div DAY) = (n \div DAY) /\ n < CloseOn(n))
      [] t = "1H" -> n >= label + HOUR
      [] t \in {"2H", "3H", "4H"} -> n >= label

C3_PeriodRule ==
    (OracleCalled /\ tf \in {"Y", "Q", "M", "W"}) =>
        /\ last_idx = (IF LastLabel > now \/ now < CloseOn(LastLabel) THEN -2 ELSE -1)
        /\ (tf = "W" /\ Weekday(DateOf(LastLabel)) = FRIDAY /\ LastLabel % DAY = 0) =>
              /\ (DateOf(now) = DateOf(LastLabel) - 2) => last_idx = -2
              /\ (DateOf(now) = DateOf(LastLabel) + 1) => last_idx = -1

\* the weekly frame labelled Friday 00:00, evaluated on the Saturday after
C3_Witness ==
    /\ OracleCalled /\ tf = "W"
    /\ Weekday(DateOf(LastLabel)) = FRIDAY /\ LastLabel % DAY = 0
    /\ DateOf(now) = DateOf(LastLabel) + 1
    /\ last_idx = -1

\* C4: the 1H label is a bar start (closed iff now >= label + 1 hour), the
\* 2H/3H/4H label a bar end (closed iff now >= label); -2 otherwise.
C4_IntradayRule ==
    OracleCalled =>
        /\ tf = "1H" => (last_idx = (IF now >= LastLabel + HOUR THEN -1 ELSE -2))
        /\ tf \in {"2H", "3H", "4H"} => (last_idx = (IF now >= LastLabel THEN -1 ELSE -2))

\* a 1H bar that has begun and not ended: open, where a 2H bar would be closed
C4_Witness ==
    /\ OracleCalled /\ tf = "1H"
    /\ LastLabel <= now /\ now < LastLabel + HOUR
    /\ last_idx = -2

----------------------------------------------------------------------------
(* strat/classify.classify_strat_candles *)

\* (mutant) the directional-up test made before the outside test
classify_bar_2U_first(prev, curr) ==
    IF curr.high <= prev.high /\ curr.low >= prev.low THEN "1"
    ELSE IF curr.high > prev.high THEN "2U"
    ELSE IF curr.high > prev.high /\ curr.low < prev.low THEN "3"
    ELSE IF curr.low < prev.low THEN "2D"
    ELSE "None"

\* The if/elif chain of the loop body; "None" is the untouched column value.
classify_bar(prev, curr) ==
    IF curr.high <= prev.high /\ curr.low >= prev.low THEN "1"
    ELSE IF curr.high > prev.high /\ curr.low < prev.low THEN "3"
    ELSE IF curr.high > prev.high THEN "2U"
    ELSE IF curr.low < prev.low THEN "2D"
    ELSE "None"

classify_strat_candles(df) ==
    [i \in 1 .. Len(df) |->
        [timestamp |-> df[i].timestamp, high |-> df[i].high, low |-> df[i].low,
         strat |-> IF i = 1 THEN "None" ELSE classify_bar(df[i - 1], df[i])]]

----------------------------------------------------------------------------
(* strat_signals.analyze_last_closed_setups *)

\* Prices are thirds of a cent.  _fmt2 = float(round(x, 2)): the nearest
\* whole cent (a third of a cent is never half way).
CENT == 3
fmt2(x) == CENT * ((x + 1) \div CENT)

StratSignal(t, pattern, setup, direction, entry, stop, prev, last) ==
    [tf |-> t, kind |-> "NEXT", pattern |-> pattern, setup |-> setup,
     direction |-> direction, entry |-> entry, stop |-> stop,
     prev_closed_ts |-> prev.timestamp, prev_strat |-> prev.strat,
     prev_high |-> fmt2(prev.high), prev_low |-> fmt2(prev.low),
     last_closed_ts |-> last.timestamp, last_strat |-> last.strat,
     last_high |-> fmt2(last.high), last_low |-> fmt2(last.low)]

\* (mutant) the inside bar's break down planned with the stop at the bar's low
inside_break_stop_at_low(t, prev, last) ==
    IF last.strat = "1"
      THEN <<StratSignal(t, prev.strat \o "-1", "1-2 BREAK_UP", "bull",
                         fmt2(last.high), fmt2(last.low), prev, last),
             StratSignal(t, prev.strat \o "-1", "1-2 BREAK_DOWN", "bear",
                         fmt2(last.low), fmt2(last.low), prev, last)>>
      ELSE <<>>

\* Section 1 (lines 143-187): the inside bar, a break either way
inside_break(t, prev, last) ==
    IF last.strat = "1"
      THEN <<StratSignal(t, prev.strat \o "-1", "1-2 BREAK_UP", "bull",
                         fmt2(last.high), fmt2(last.low), prev, last),
             StratSignal(t, prev.strat \o "-1", "1-2 BREAK_DOWN", "bear",
                         fmt2(last.low), fmt2(last.high), prev, last)>>
      ELSE <<>>

\* (mutant) the outside bar's break down planned with entry and stop swapped
outside_break_bear_swapped(t, prev, last) ==
    IF last.strat = "3"
      THEN <<StratSignal(t, prev.strat \o "-3", "3-2 BREAK_UP", "bull",
                         fmt2(last.high), fmt2(last.low), prev, last),
             StratSignal(t, prev.strat \o "-3", "3-2 BREAK_DOWN", "bear",
                         fmt2(last.high), fmt2(last.low), prev, last)>>
      ELSE <<>>

\* Section 2 (lines 192-236): the outside bar, a break either way
outside_break(t, prev, last) ==
    IF last.strat = "3"
      THEN <<StratSignal(t, prev.strat \o "-3", "3-2 BREAK_UP", "bull",
                         fmt2(last.high), fmt2(last.low), prev, last),
             StratSignal(t, prev.strat \o "-3", "3-2 BREAK_DOWN", "bear",
                         fmt2(last.low), fmt2(last.high), prev, last)>>
      ELSE <<>>

\* (mutant) the RevStrat watch emitted after any previous bar
revstrat_watch_after_any(t, prev, last) ==
    (IF last.strat = "2U"
       THEN <<StratSignal(t, prev.strat \o "-2U",
                          "REVSTRAT " \o prev.strat \o "-2-2 (watch 2D)", "bear",
                          fmt2(last.low), fmt2(last.high), prev, last)>>
       ELSE <<>>)
    \o (IF last.strat = "2D"
       THEN <<StratSignal(t, prev.strat \o "-2D",
                          "REVSTRAT " \o prev.strat \o "-2-2 (watch 2U)", "bull",
                          fmt2(last.high), fmt2(last.low), prev, last)>>
       ELSE <<>>)

\* Section 3 (lines 243-290): the RevStrat watch after 1-2 or 3-2
revstrat_watch(t, prev, last) ==
    IF prev.strat \in {"1", "3"} /\ last.strat \in {"2U", "2D"}
      THEN (IF last.strat = "2U"
              THEN <<StratSignal(t, prev.strat \o "-2U",
                                 "REVSTRAT " \o prev.strat \o "-2-2 (watch 2D)", "bear",
                                 fmt2(last.low), fmt2(last.high), prev, last)>>
              ELSE <<>>)
           \o (IF last.strat = "2D"
              THEN <<StratSignal(t, prev.strat \o "-2D",
                                 "REVSTRAT " \o prev.strat \o "-2-2 (watch 2U)", "bull",
                                 fmt2(last.high), fmt2(last.low), prev, last)>>
              ELSE <<>>)
      ELSE <<>>

\* The body of analyze_last_closed_setups once last_idx is known (lines 119-292)
emit_setups(df, t, idx) ==
    LET prev_idx == idx - 1 IN
    IF Len(df) < 0 - prev_idx THEN <<>>
    ELSE LET prev == Iloc(df, prev_idx)
             last == Iloc(df, idx)
         IN  inside_break(t, prev, last) \o outside_break(t, prev, last)
                \o revstrat_watch(t, prev, last)

MIN_ROWS == 3

\* (mutant) the detector reading the last row whatever the oracle says
analyze_last_row_always(df, t, n) ==
    IF df = <<>> \/ Len(df) < MIN_ROWS THEN <<>> ELSE emit_setups(df, t, -1)

\* The frame arrives sorted by timestamp, so sort_values leaves it as it is.
analyze_last_closed_setups(df, t, n) ==
    IF df = <<>> \/ Len(df) < MIN_ROWS THEN <<>>
    ELSE emit_setups(df, t, last_closed_index(t, df, n))

----------------------------------------------------------------------------
(* Operations of the detector: main.scan_ticker classifies a frame and      *)
(* hands it to analyze_last_closed_setups (lines 303-309, 354-359).          *)

PX_BASE == 10 * 100 * CENT
Prices == PX_BASE .. (PX_BASE + MaxPx)
Bars == {b \in [high : Prices, low : Prices] : b.high >= b.low}

\* The last k labels of a frame, oldest first
RECURSIVE TailLabels(_, _)
TailLabels(S, k) ==
    IF k = 0 \/ S = {} THEN <<>>
    ELSE LET a == Max(S) IN Append(TailLabels(S \ {a}, k - 1), a)

\* The detector is run on the Friday of the window, at 12:00 (every
\* timeframe's last bar in progress) and at 17:00 (every last bar closed);
\* the month, quarter and year end on that Friday.
DETECT_DAY == FRIDAY - 2
DetectNows == {DETECT_DAY * DAY + 12 * HOUR, DETECT_DAY * DAY + 17 * HOUR}
RowCounts == {MIN_ROWS, MIN_ROWS + 1}

\* build_timeframe_frames: the labels of the frame's last k rows
BuildFrame ==
    /\ built = "none"
    /\ \E t \in TARGET_TFS, n \in DetectNows, k \in RowCounts :
         LET labels == TailLabels(build_timeframe_labels(t, n, DETECT_DAY), k) IN
         /\ Len(labels) = k
         /\ tf' = t
         /\ now' = n
         /\ df_tf' = [i \in 1 .. k |-> [timestamp |-> labels[i]]]
         /\ built' = "frame"
         /\ UNCHANGED <<last_idx, signals, nonDetect>>

\* scan_ticker on the frame, whatever highs and lows its bars have
AnalyzeCall ==
    /\ built = "frame"
    /\ \E bars \in [1 .. Len(df_tf) -> Bars] :
         LET df == classify_strat_candles(
                     [i \in 1 .. Len(df_tf) |->
                        [timestamp |-> df_tf[i].timestamp,
                         high |-> bars[i].high, low |-> bars[i].low]])
         IN  /\ df_tf' = df
             /\ built' = "scan"
             /\ last_idx' = last_closed_index(tf, df, now)
             /\ signals' = analyze_last_closed_setups(df, tf, now)
             /\ UNCHANGED <<tf, now, nonDetect>>

\* Whole dollars, as prices
Dollars(d) == d * 100 * CENT
ExamplePrices == {Dollars(95), Dollars(98), Dollars(103), Dollars(105)}
ExampleBars == {b \in [high : ExamplePrices, low : ExamplePrices] : b.high >= b.low}

\* scan_ticker on a daily frame whose bars move between $95 and $105
AnalyzeExample ==
    /\ built = "frame"
    /\ tf = "D"
    /\ \E bars \in [1 .. Len(df_tf) -> ExampleBars] :
         LET df == classify_strat_candles(
                     [i \in 1 .. Len(df_tf) |->
                        [timestamp |-> df_tf[i].timestamp,
                         high |-> bars[i].high, low |-> bars[i].low]])
         IN  /\ df_tf' = df
             /\ built' = "scan"
             /\ last_idx' = last_closed_index(tf, df, now)
             /\ signals' = analyze_last_closed_setups(df, tf, now)
             /\ UNCHANGED <<tf, now, nonDetect>>

NextDetect == BuildFrame \/ AnalyzeCall \/ AnalyzeExample

SpecDetect == Init /\ [][NextDetect]_vars

----------------------------------------------------------------------------
(* Properties of the detector *)

Scanned == built = "scan"
PrevClosed == Iloc(df_tf, last_idx - 1)
LastClosed == Iloc(df_tf, last_idx)
SeqToSet(q) == {q[i] : i \in 1 .. Len(q)}

\* The frame with the high and low of its last row replaced, classified anew
WithLastBar(df, b) ==
    classify_strat_candles(
        [i \in 1 .. Len(df) |->
            [timestamp |-> df[i].timestamp,
             high |-> IF i = Len(df) THEN b.high ELSE df[i].high,
             low |-> IF i = Len(df) THEN b.low ELSE df[i].low]])

\* C1: no repaint.  Whenever last_closed_index returns -2, the setups are the
\* same for every frame that differs only in the high and low of the last
\* (in-progress) row.
C1_NoRepaint ==
    (Scanned /\ last_idx = -2) =>
        \A b \in Bars :
            analyze_last_closed_setups(WithLastBar(df_tf, b), tf, now) = signals

\* an in-progress outside bar after a closed inside bar: only the inside
\* bar's two plans are returned
C1_Witness ==
    /\ Scanned /\ last_idx = -2 /\ Len(df_tf) = MIN_ROWS + 1
    /\ Iloc(df_tf, -1).strat = "3" /\ Iloc(df_tf, -2).strat = "1"
    /\ Len(signals) = 2

\* What a plan says: direction, entry, stop
Plan(sig) == [direction |-> sig.direction, entry |-> sig.entry, stop |-> sig.stop]
Plans == [i \in 1 .. Len(signals) |-> Plan(signals[i])]
BullPlan(last) == [direction |-> "bull", entry |-> fmt2(last.high), stop |-> fmt2(last.low)]
BearPlan(last) == [direction |-> "bear", entry |-> fmt2(last.low), stop |-> fmt2(last.high)]

\* The case table, with the RevStrat watch after the previous classes rev
CaseTable(prev, last, rev) ==
    IF last.strat \in {"1", "3"} THEN <<BullPlan(last), BearPlan(last)>>
    ELSE IF prev.strat \in rev /\ last.strat = "2U" THEN <<BearPlan(last)>>
    ELSE IF prev.strat \in rev /\ last.strat = "2D" THEN <<BullPlan(last)>>
    ELSE <<>>

\* C5 as stated: the detector emits exactly the setups of the case table;
\* the RevStrat watch only after prev = 1, nothing after prev = 3 with last
\* = 2U or 2D.
C5_CaseTable == Scanned => Plans = CaseTable(PrevClosed, LastClosed, {"1"})

\* C5 amended: as the case table, but the RevStrat watch (one bear setup for
\* last = 2U, one bull setup for last = 2D) is emitted after prev = 1 and
\* after prev = 3 alike; entry and stop are the last closed bar's high and
\* low rounded to two decimals.
C5_CaseTableRevStratAfter1Or3 ==
    Scanned => Plans = CaseTable(PrevClosed, LastClosed, {"1", "3"})

\* an outside bar followed by a directional-up bar: one bear RevStrat watch
C5_Witness ==
    /\ Scanned /\ PrevClosed.strat = "3" /\ LastClosed.strat = "2U"
    /\ Len(signals) = 1 /\ signals[1].direction = "bear"
    /\ signals[1].pattern = "3-2U"

\* C6: every setup has entry and stop among the last closed bar's high and
\* low, entry # stop, and direction = bull iff entry = last.high; also for
\* a bar whose high equals its low.
C6_EntryStopOpposite ==
    Scanned =>
        \A sig \in SeqToSet(signals) :
            LET hi == fmt2(LastClosed.high)
                lo == fmt2(LastClosed.low)
            IN  /\ sig.entry \in {hi, lo}
                /\ sig.stop \in {hi, lo}
                /\ sig.entry # sig.stop
                /\ (sig.direction = "bull") <=> (sig.entry = hi)

\* C7: noise suppression.  No setup when the previous and the last closed
\* bar are both directional (2U or 2D).
C7_NoiseSuppression ==
    (Scanned /\ PrevClosed.strat \in {"2U", "2D"} /\ LastClosed.strat \in {"2U", "2D"})
        => signals = <<>>

\* a 2U bar followed by a 2D bar, both closed
C7_Witness ==
    /\ Scanned /\ last_idx = -1
    /\ PrevClosed.strat = "2U" /\ LastClosed.strat = "2D"
    /\ signals = <<>>

----------------------------------------------------------------------------
(* main.compute_bias_score *)

CONTEXT_TFS == <<"Y", "Q", "M", "W", "D">>

\* WEIGHTS.get(tf, 0)
WEIGHTS(t) ==
    CASE t = "Y" -> 5 [] t = "Q" -> 4 [] t = "M" -> 3 [] t = "W" -> 2 [] t = "D" -> 1
      [] OTHER -> 0

\* (mutant) the weight assigned to the score instead of added to it
RECURSIVE compute_bias_score_overwriting(_)
compute_bias_score_overwriting(context_closed) ==
    IF context_closed = <<>> THEN 0
    ELSE LET n == Len(context_closed)
             score == compute_bias_score_overwriting(SubSeq(context_closed, 1, n - 1))
             w == WEIGHTS(context_closed[n][1])
             strat == context_closed[n][2]
         IN  IF strat = "2U" THEN w
             ELSE IF strat = "2D" THEN 0 - w
             ELSE score

\* The loop over context_closed.items(), in the dict's order
RECURSIVE compute_bias_score(_)
compute_bias_score(context_closed) ==
    IF context_closed = <<>> THEN 0
    ELSE LET n == Len(context_closed)
             score == compute_bias_score(SubSeq(context_closed, 1, n - 1))
             w == WEIGHTS(context_closed[n][1])
             strat == context_closed[n][2]
         IN  IF strat = "2U" THEN score + w
             ELSE IF strat = "2D" THEN score - w
             ELSE score

----------------------------------------------------------------------------
(* Operations of the scorer and of main.scan_ticker *)

STRATS == {"1", "2U", "2D", "3"}

\* The items of a dict holding the timeframes T with the strats f, inserted
\* in the order p of the five timeframes
Items(T, f, p) ==
    LET keys == SelectSeq([i \in 1 .. 5 |-> CONTEXT_TFS[p[i]]], LAMBDA t : t \in T)
    IN  [i \in 1 .. Len(keys) |-> <<keys[i], f[keys[i]]>>]

\* The order in which scan_ticker fills ctx_closed (lines 312-318)
ScanOrder == [i \in 1 .. 5 |-> i]

\* compute_bias_score on an arbitrary context
BiasCall ==
    /\ scan_pc = "idle"
    /\ \E T \in SUBSET {"Y", "Q", "M", "W", "D"} :
         \E f \in [T -> STRATS], p \in Permutations(1 .. 5) :
            /\ ctx_closed' = Items(T, f, p)
            /\ bias_score' = compute_bias_score(Items(T, f, p))
            /\ scan_pc' = "scored"
            /\ UNCHANGED <<pending, aligned, rows, nonScan>>

Directions == {"bull", "bear"}
SignalRuns == UNION {[1 .. k -> Directions] : k \in 0 .. MaxSignals}

\* scan_ticker, lines 311-361: the closed context, the score, and the
\* signals of the detector (here: their directions, whatever they are)
ScanContext ==
    /\ scan_pc = "idle"
    /\ \E T \in SUBSET {"Y", "Q", "M", "W", "D"} :
         \E f \in [T -> STRATS], sigs \in SignalRuns :
            /\ ctx_closed' = Items(T, f, ScanOrder)
            /\ bias_score' = compute_bias_score(Items(T, f, ScanOrder))
            /\ pending' = sigs
            /\ scan_pc' = "loop"
            /\ UNCHANGED <<aligned, rows, nonScan>>

\* lines 363-372: the alignment tag of the next signal
TagSetup ==
    /\ scan_pc = "loop"
    /\ pending # <<>>
    /\ aligned' = (IF Head(pending) \in {"bull", "bear"}
                     THEN (IF Head(pending) = "bull"
                             THEN (IF bias_score > 0 THEN "True" ELSE "False")
                             ELSE (IF bias_score < 0 THEN "True" ELSE "False"))
                     ELSE "None")
    /\ scan_pc' = "tagged"
    /\ UNCHANGED <<ctx_closed, bias_score, pending, rows, nonScan>>

\* line 374: sig.last_open is no field of StratSignal, so the call raises
\* AttributeError before the row is appended; scan_ticker is left.
NameCandle ==
    /\ scan_pc = "tagged"
    /\ scan_pc' = "raised"
    /\ UNCHANGED <<ctx_closed, bias_score, pending, aligned, rows, nonScan>>

\* line 408: no signal left
ScanReturn ==
    /\ scan_pc = "loop"
    /\ pending = <<>>
    /\ scan_pc' = "returned"
    /\ UNCHANGED <<ctx_closed, bias_score, pending, aligned, rows, nonScan>>

NextBias == BiasCall \/ ScanContext \/ TagSetup \/ NameCandle \/ ScanReturn

SpecBias == Init /\ [][NextBias]_vars

----------------------------------------------------------------------------
(* Properties of the scorer and of the alignment tag *)

Scored == scan_pc # "idle"
StratOf(c, t) ==
    IF \E i \in 1 .. Len(c) : c[i][1] = t
      THEN (CHOOSE x \in SeqToSet(c) : x[1] = t)[2]
      ELSE "absent"
Sign(strat) == IF strat = "2U" THEN 1 ELSE IF strat = "2D" THEN 0 - 1 ELSE 0
Reversed(q) == [i \in 1 .. Len(q) |-> q[Len(q) + 1 - i]]

\* C8: the score is the weighted sum 5 Y + 4 Q + 3 M + 2 W + 1 D of the signs
\* (2U = +1, 2D = -1, otherwise 0), an integer in -15 .. 15, whatever the
\* order in which the timeframes are examined; every result row of the
\* symbol carries that score.
C8_BiasScore ==
    Scored =>
        /\ bias_score = 5 * Sign(StratOf(ctx_closed, "Y")) + 4 * Sign(StratOf(ctx_closed, "Q"))
                          + 3 * Sign(StratOf(ctx_closed, "M")) + 2 * Sign(StratOf(ctx_closed, "W"))
                          + Sign(StratOf(ctx_closed, "D"))
        /\ bias_score \in -15 .. 15
        /\ compute_bias_score(Reversed(ctx_closed)) = bias_score
        /\ \A r \in SeqToSet(rows) : r.score = bias_score

\* the context {Y:2U, Q:2U, M:2D, W:1, D:2U} examined from D up to Y scores 7
C8_Witness ==
    /\ scan_pc = "scored"
    /\ ctx_closed = <<(<<"D", "2U">>), (<<"W", "1">>), (<<"M", "2D">>),
                      (<<"Q", "2U">>), (<<"Y", "2U">>)>>
    /\ bias_score = 7

\* C9: the alignment of a directional setup is three-valued: aligned iff the
\* sign of the score matches the direction, counter iff it is opposite,
\* neutral iff the score is 0, so that a score-0 row differs from a counter
\* row.  The tag of scan_ticker is "True" for aligned and "False" for counter.
C9_ThreeValuedAlignment ==
    (scan_pc = "tagged" /\ Head(pending) \in Directions) =>
        LET d == IF Head(pending) = "bull" THEN 1 ELSE 0 - 1 IN
        /\ (aligned = "True") <=> (bias_score * d > 0)
        /\ (aligned = "False") <=> (bias_score * d < 0)
        /\ (bias_score = 0) <=> (aligned \notin {"True", "False"})

----------------------------------------------------------------------------
(* universe.loader: the universe of one run *)

\* config.py, scaled down: two of the sixteen core ETFs, caps in $1B
CORE_ETFS == <<"SPY", "QQQ">>
MIN_MARKET_CAP == 1
ROTATION_PER_RUN(c) == c.MAX_TICKERS_PER_RUN - c.PRIORITY_PER_RUN

Min(a, b) == IF a < b THEN a ELSE b

\* strip, upper-case, drop a leading "$", "." to "-", drop every other
\* character: on the symbols of the tables below
normalize_symbol(sym) ==
    CASE sym = "spy" -> "SPY"
      [] sym = "$e" -> "E"
      [] sym = "?" -> ""
      [] OTHER -> sym

NormalizeAll(raw) ==
    SelectSeq([i \in 1 .. Len(raw) |-> normalize_symbol(raw[i])], LAMBDA x : x # "")

\* (mutant) the last occurrence of a symbol kept instead of the first
RECURSIVE dedupe_keep_last(_)
dedupe_keep_last(items) ==
    IF items = <<>> THEN <<>>
    ELSE LET out == dedupe_keep_last(Tail(items))
             x == Head(items)
         IN  IF x = "" \/ (\E i \in 1 .. Len(out) : out[i] = x) THEN out ELSE <<x>> \o out

\* (mutant) nothing dropped
dedupe_nothing(items) == items

RECURSIVE dedupe_keep_order(_)
dedupe_keep_order(items) ==
    IF items = <<>> THEN <<>>
    ELSE LET n == Len(items)
             out == dedupe_keep_order(SubSeq(items, 1, n - 1))
             x == items[n]
         IN  IF x = "" \/ (\E i \in 1 .. Len(out) : out[i] = x) THEN out ELSE Append(out, x)

\* Python's s[:n] and s[n:] for n >= 0
Take(s, n) == SubSeq(s, 1, Min(n, Len(s)))
Drop(s, n) == SubSeq(s, n + 1, Len(s))

\* _read_state: {"offset": 0} when the file is missing
read_state(file) == IF file.exists THEN file.offset ELSE 0

\* (mutant) the batch cut at the end of the pool
rotation_window_no_wrap(pool, start, take) ==
    SubSeq(pool, start + 1, Min(start + take, Len(pool)))

\* (mutant) every batch taken from the head of the pool
rotation_window_from_head(pool, start, take) == SubSeq(pool, 1, take)

\* lines 294-300: take elements from index start, wrapping to the pool's start
rotation_window(pool, start, take) ==
    LET end == start + take
    IN  IF end <= Len(pool)
          THEN SubSeq(pool, start + 1, end)
          ELSE SubSeq(pool, start + 1, Len(pool)) \o SubSeq(pool, 1, end - Len(pool))

load_universe(c, stocks, etfs_raw, file) ==
    LET eligible == SelectSeq(stocks, LAMBDA r : r.market_cap_int >= MIN_MARKET_CAP)
        symbols == [i \in 1 .. Len(eligible) |-> eligible[i].Symbol]
        priority == NormalizeAll(Take(symbols, c.PRIORITY_TOP_STOCKS))
        remaining == NormalizeAll(Drop(symbols, c.PRIORITY_TOP_STOCKS))
        etfs == NormalizeAll(etfs_raw)
        core_etfs == NormalizeAll(CORE_ETFS)
        pool == dedupe_keep_order(remaining \o etfs)
        take_priority == Min(c.PRIORITY_PER_RUN, Len(priority))
        prio_batch == Take(priority, take_priority)
        offset == IF pool # <<>> THEN read_state(file) ELSE 0
        take_rotation == Min(ROTATION_PER_RUN(c), Len(pool))
        rotates == take_rotation > 0 /\ pool # <<>>
        start == offset % Len(pool)
        batch == IF rotates THEN rotation_window(pool, start, take_rotation) ELSE <<>>
        new_offset == IF rotates THEN (start + take_rotation) % Len(pool) ELSE offset
        all == dedupe_keep_order(core_etfs \o prio_batch \o batch)
        dev == IF c.DEV_MODE THEN Take(all, c.DEV_TICKERS_LIMIT) ELSE all
    IN  [expansion_pool |-> pool, offset_read |-> offset, rotation_batch |-> batch,
         priority_batch |-> prio_batch,
         offset |-> new_offset, universe |-> Take(dev, c.MAX_TICKERS_PER_RUN)]

----------------------------------------------------------------------------
(* Operations of the universe loader *)

\* The reference tables: prefixes of these rows
STOCK_ROWS ==
    <<[Symbol |-> "P1", market_cap_int |-> 9], [Symbol |-> "P2", market_cap_int |-> 8],
      [Symbol |-> "A", market_cap_int |-> 7], [Symbol |-> "SMALL", market_cap_int |-> 0],
      [Symbol |-> "B", market_cap_int |-> 2], [Symbol |-> "C", market_cap_int |-> 1]>>
ETF_ROWS == <<"D", "$e", "spy", "A", "?">>

Configs ==
    {c \in [PRIORITY_TOP_STOCKS : {0, 1, 2}, PRIORITY_PER_RUN : 0 .. 2,
            MAX_TICKERS_PER_RUN : 1 .. MaxTickers, DEV_MODE : BOOLEAN,
            DEV_TICKERS_LIMIT : {1, Len(CORE_ETFS)}] :
        ROTATION_PER_RUN(c) > 0}

\* Before the first run: the configuration, the cached tables and whatever
\* state.json an earlier deployment left
InitUniverse ==
    /\ DetectIdle
    /\ ScanIdle
    /\ PublishIdle
    /\ LoadIdle
    /\ MainIdle
    /\ table_cache = [t \in TABLES |-> "fresh"]
    /\ state_prev = [exists |-> FALSE, offset |-> 0]
    /\ ResampleIdle
    /\ cfg \in Configs
    /\ stocks_df \in {SubSeq(STOCK_ROWS, 1, n) : n \in 0 .. Len(STOCK_ROWS)}
    /\ etfs_df \in {SubSeq(ETF_ROWS, 1, n) : n \in 0 .. Len(ETF_ROWS)}
    /\ state_file \in {[exists |-> FALSE, offset |-> 0]}
                        \cup {[exists |-> TRUE, offset |-> o] : o \in 0 .. MaxOffset}
    /\ UniverseIdle

\* One run of load_universe
LoadUniverse ==
    /\ runs < MaxRuns
    /\ LET r == load_universe(cfg, stocks_df, etfs_df, state_file)
       IN  /\ state_file' = [exists |-> TRUE, offset |-> r.offset]
           /\ offset_read' = r.offset_read
           /\ expansion_pool' = r.expansion_pool
           /\ priority_batch' = r.priority_batch
           /\ rotation_batch' = r.rotation_batch
           /\ universe' = r.universe
           /\ universes' = Append(universes, r.universe)
           /\ batches' = Append(batches, r.rotation_batch)
           /\ offsets' = Append(offsets, r.offset)
           /\ runs' = runs + 1
    /\ UNCHANGED <<cfg, stocks_df, etfs_df, nonUni>>

NextUniverse == LoadUniverse

SpecUniverse == InitUniverse /\ [][NextUniverse]_vars

----------------------------------------------------------------------------
(* Properties of the rotation *)

\* C10: with a pool of size N > 0, k = min(rotation_per_run, N) and stored
\* offset o, a run selects the k consecutive pool elements from index o mod N,
\* wrapping around, and persists ((o mod N) + k) mod N; for the pool
\* [A,B,C,D,E], k = 2 and offset 4, three runs select [E,A], [B,C], [D,E] and
\* persist 1, 3, 0.
C10_Rotation ==
    (runs > 0 /\ expansion_pool # <<>>) =>
        LET N == Len(expansion_pool)
            k == Min(ROTATION_PER_RUN(cfg), N)
            o == offset_read
        IN  /\ rotation_batch = [i \in 1 .. k |-> expansion_pool[(((o % N) + i - 1) % N) + 1]]
            /\ state_file = [exists |-> TRUE, offset |-> ((o % N) + k) % N]
            /\ (/\ expansion_pool = <<"A", "B", "C", "D", "E">>
                /\ k = 2
                /\ runs = 3
                /\ offsets[1] = 1)
               => /\ batches = <<(<<"E", "A">>), (<<"B", "C">>), (<<"D", "E">>)>>
                  /\ offsets = <<1, 3, 0>>

\* three runs over [A,B,C,D,E] with k = 2 that began at the stored offset 4
C10_Witness ==
    /\ runs = 3
    /\ expansion_pool = <<"A", "B", "C", "D", "E">>
    /\ ROTATION_PER_RUN(cfg) = 2
    /\ batches[1] = <<"E", "A">>
    /\ offsets = <<1, 3, 0>>

\* Runs of a full rotation cycle: ceil(N / k)
CycleRuns(N, k) == (N + k - 1) \div k

\* In how many of the first c rotation batches the symbol s was selected
TimesSelected(s, c) == Cardinality({i \in 1 .. c : s \in SeqToSet(batches[i])})

\* C11: with an unchanged pool of size N and rotation_per_run = k, after
\* ceil(N / k) consecutive runs every pool symbol has appeared in the universe
\* returned by at least one of them.
C11_CycleVisitsPool ==
    LET N == Len(expansion_pool)
        c == CycleRuns(N, ROTATION_PER_RUN(cfg))
    IN  (N > 0 /\ runs >= c) =>
            \A s \in SeqToSet(expansion_pool) :
                \E i \in 1 .. c : s \in SeqToSet(universes[i])

\* C12: within one full cycle of ceil(N / k) runs every pool symbol is
\* selected into a rotation batch exactly once, also when k does not divide N.
C12_ExactlyOncePerCycle ==
    LET N == Len(expansion_pool)
        c == CycleRuns(N, ROTATION_PER_RUN(cfg))
    IN  (N > 0 /\ runs >= c) =>
            \A s \in SeqToSet(expansion_pool) : TimesSelected(s, c) = 1

\* C12 (amended): within one full cycle every pool symbol is selected into a
\* rotation batch at least once and at most twice, and exactly once when the
\* batch size min(k, N) divides N.
C12_OnceOrTwicePerCycle ==
    LET N == Len(expansion_pool)
        c == CycleRuns(N, ROTATION_PER_RUN(cfg))
    IN  (N > 0 /\ runs >= c) =>
            \A s \in SeqToSet(expansion_pool) :
                /\ TimesSelected(s, c) \in {1, 2}
                /\ (N % Min(ROTATION_PER_RUN(cfg), N) = 0) => TimesSelected(s, c) = 1

\* a cycle of three runs over a pool of six with k = 2, begun at an odd index
C12_Witness ==
    /\ runs = 3
    /\ Len(expansion_pool) = 6
    /\ ROTATION_PER_RUN(cfg) = 2
    /\ offsets = <<3, 5, 1>>
    /\ \A s \in SeqToSet(expansion_pool) : TimesSelected(s, 3) = 1

----------------------------------------------------------------------------
(* Properties of the returned universe *)

CoreSet == SeqToSet(NormalizeAll(CORE_ETFS))

Rank(sym) ==
    IF sym \in CoreSet THEN 0
    ELSE IF sym \in SeqToSet(priority_batch) THEN 1
    ELSE 2

\* C14: every returned universe has at most max_tickers_per_run symbols, no
\* duplicate, no empty symbol, and lists core ETFs before priority stocks
\* before rotation symbols.
C14_UniverseShape ==
    runs > 0 =>
        /\ Len(universe) <= cfg.MAX_TICKERS_PER_RUN
        /\ \A i, j \in 1 .. Len(universe) : i # j => universe[i] # universe[j]
        /\ \A i \in 1 .. Len(universe) : universe[i] # ""
        /\ \A i, j \in 1 .. Len(universe) : i < j => Rank(universe[i]) <= Rank(universe[j])
        /\ SeqToSet(universe) \subseteq
              CoreSet \cup SeqToSet(priority_batch) \cup SeqToSet(rotation_batch)

\* a universe of core ETFs, a priority stock and a rotation symbol, built
\* from a rotation batch that repeats a core ETF and an ETF table with a
\* symbol that normalizes to nothing
C14_Witness ==
    /\ runs > 0
    /\ Len(universe) = 4
    /\ Rank(universe[3]) = 1
    /\ Rank(universe[4]) = 2
    /\ "SPY" \in SeqToSet(rotation_batch)
    /\ Len(etfs_df) = Len(ETF_ROWS)

----------------------------------------------------------------------------
(* Publication of the artifacts: snapshot.write_snapshot, then              *)
(* main._write_context_csv (main.py:444-445), and a concurrent reader.       *)

Stage(f, st) == [file |-> f, stage |-> st]
Publishing == pub_pc.file # "none"

\* The order of the statements of write_snapshot and _write_context_csv
NextStage(pc) ==
    CASE pc = Stage("json", "dumps") -> Stage("json", "open")
      [] pc = Stage("json", "open") -> Stage("json", "write")
      [] pc = Stage("json", "write") -> Stage("json", "replace")
      [] pc = Stage("json", "replace") -> Stage("csv", "dumps")
      [] pc = Stage("csv", "dumps") -> Stage("csv", "open")
      [] pc = Stage("csv", "open") -> Stage("csv", "write")
      [] pc = Stage("csv", "write") -> Stage("csv", "replace")
      [] pc = Stage("csv", "replace") -> Stage("ctx", "open")
      [] pc = Stage("ctx", "open") -> Stage("ctx", "write")

\* main reaches line 444 with the rows of a run
BeginPublish ==
    /\ ~Publishing
    /\ pub_run < MaxPublishes
    /\ pub_run' = pub_run + 1
    /\ prior_files' = files
    /\ pub_pc' = Stage("json", "dumps")
    /\ UNCHANGED <<files, tmp_files, failed_at, reader_saw, nonPub>>

\* json.dumps(rows), df.to_csv(index=False): the text is built in memory
Serialize ==
    /\ Publishing
    /\ pub_pc.stage = "dumps"
    /\ pub_pc' = NextStage(pub_pc)
    /\ UNCHANGED <<pub_run, files, tmp_files, prior_files, failed_at, reader_saw, nonPub>>

\* _atomic_write_text: open(path + ".tmp", "w") truncates the temporary file
OpenTmp ==
    /\ Publishing
    /\ pub_pc.stage = "open" /\ pub_pc.file \in {"json", "csv"}
    /\ tmp_files' = [tmp_files EXCEPT ![pub_pc.file] = [v |-> pub_run, n |-> 0]]
    /\ pub_pc' = NextStage(pub_pc)
    /\ UNCHANGED <<pub_run, files, prior_files, failed_at, reader_saw, nonPub>>

\* f.write(text): the text reaches the temporary file chunk by chunk
WriteTmp ==
    /\ Publishing
    /\ pub_pc.stage = "write" /\ pub_pc.file \in {"json", "csv"}
    /\ tmp_files' = [tmp_files EXCEPT ![pub_pc.file].n = @ + 1]
    /\ pub_pc' = IF tmp_files[pub_pc.file].n + 1 = CHUNKS THEN NextStage(pub_pc) ELSE pub_pc
    /\ UNCHANGED <<pub_run, files, prior_files, failed_at, reader_saw, nonPub>>

\* os.replace(tmp, path)
ReplaceTmp ==
    /\ Publishing
    /\ pub_pc.stage = "replace"
    /\ files' = [files EXCEPT ![pub_pc.file] = tmp_files[pub_pc.file]]
    /\ tmp_files' = [tmp_files EXCEPT ![pub_pc.file] = NoFile]
    /\ pub_pc' = NextStage(pub_pc)
    /\ UNCHANGED <<pub_run, prior_files, failed_at, reader_saw, nonPub>>

\* _write_context_csv: to_csv(CONTEXT_OUT_PATH) opens the published file
\* itself for writing, which truncates it
OpenContext ==
    /\ Publishing
    /\ pub_pc = Stage("ctx", "open")
    /\ files' = [files EXCEPT !["ctx"] = [v |-> pub_run, n |-> 0]]
    /\ pub_pc' = NextStage(pub_pc)
    /\ UNCHANGED <<pub_run, tmp_files, prior_files, failed_at, reader_saw, nonPub>>

\* ... and writes the table into it chunk by chunk
WriteContext ==
    /\ Publishing
    /\ pub_pc = Stage("ctx", "write")
    /\ files' = [files EXCEPT !["ctx"].n = @ + 1]
    /\ pub_pc' = IF files["ctx"].n + 1 = CHUNKS THEN Stage("none", "done") ELSE pub_pc
    /\ UNCHANGED <<pub_run, tmp_files, prior_files, failed_at, reader_saw, nonPub>>

\* The statement about to run raises (serialisation error, disk full, no
\* permission, ...): nothing of it takes effect and main() ends with the error
PublishFails ==
    /\ Publishing
    /\ failed_at' = pub_pc
    /\ pub_pc' = Stage("none", "failed")
    /\ UNCHANGED <<pub_run, files, tmp_files, prior_files, reader_saw, nonPub>>

\* A consumer reads one of the published files, at any instant
ReaderReads ==
    /\ \E f \in {"json", "csv", "ctx"} : reader_saw' = files[f]
    /\ UNCHANGED <<pub_pc, pub_run, files, tmp_files, prior_files, failed_at, nonPub>>

NextPublish ==
    \/ BeginPublish \/ Serialize \/ OpenTmp \/ WriteTmp \/ ReplaceTmp
    \/ OpenContext \/ WriteContext \/ PublishFails \/ ReaderReads

SpecPublish == Init /\ [][NextPublish]_vars

----------------------------------------------------------------------------
(* Properties of the publication *)

\* C15: both artifacts are published by a temporary file and a rename, so a
\* reader running concurrently with main() reads, at any instant, a complete
\* file (the previous one or the new one), never a partially written one.
C15_ReaderNeverSeesTornFile ==
    /\ reader_saw.n = CHUNKS
    /\ reader_saw.v <= pub_run

\* C16: if publishing the snapshot fails at any step (serialising, writing a
\* temporary file, either rename), every previously published file (JSON,
\* CSV and context) still holds its prior content.
C16_FailedSnapshotLeavesPrior ==
    (pub_pc.stage = "failed" /\ failed_at.file \in {"json", "csv"}) => files = prior_files

----------------------------------------------------------------------------
(* loaders.yahoo: load_ohlc and its helpers.  Spacings are in half-hours.   *)

INTRADAY_INTERVALS == {"1m", "2m", "5m", "15m", "30m", "60m", "90m", "1h"}

\* Rows of the table a worker thread delivers after its deadline; no table
\* delivered in time has as many, so the late table can be told from them
LATE_ROWS == 4

\* The answers of yf.download: no answer within the timeout, an exception,
\* an empty table, a table without the Close column, a table whose prices
\* are not numbers, or bars (two or three rows, spaced 1h, 2h, 4h or 1d).
\* "timeout" is the worker found alive at line 183; rows and spacing are
\* then those of the table it delivers later, to its own "out".
VendorAnswers ==
    {[kind |-> k, rows |-> 0, spacing |-> 0] :
        k \in {"timeout", "exception", "empty", "no_close_column", "bad_values"}}
      \cup {[kind |-> "bars", rows |-> r, spacing |-> sp] :
              r \in {2, 3}, sp \in {HOUR, 2 * HOUR, 4 * HOUR, DAY}}
      \cup {[kind |-> "timeout", rows |-> LATE_ROWS, spacing |-> HOUR]}

Returned(frame) == [raised |-> FALSE, frame |-> frame]
Raised == [raised |-> TRUE, frame |-> EmptyFrame]

\* _normalize_download: rows without numeric prices are dropped;
\* dropna(subset=["open","high","low","close"]) raises KeyError when one of
\* these columns is missing from the table
normalize_download(raw) ==
    CASE raw.kind = "empty" -> Returned(EmptyFrame)
      [] raw.kind = "no_close_column" -> Raised
      [] raw.kind = "bad_values" -> Returned(EmptyFrame)
      [] raw.kind = "bars" -> Returned([rows |-> raw.rows, spacing |-> raw.spacing])

\* (mutant) the worker's failures passed on to the caller
download_yf_with_timeout_unguarded(answer) ==
    IF answer.kind \in {"timeout", "exception"} THEN Raised ELSE normalize_download(answer)

\* (mutant) the worker joined without a deadline: its table is used however
\* late it comes
download_yf_with_timeout_no_deadline(answer) ==
    IF answer.kind = "exception" THEN Returned(EmptyFrame)
    ELSE IF answer.kind = "timeout"
      THEN Returned([rows |-> answer.rows, spacing |-> answer.spacing])
    ELSE normalize_download(answer)

\* _download_yf_with_timeout: empty on a timeout or an exception of the worker
download_yf_with_timeout(answer) ==
    IF answer.kind \in {"timeout", "exception"}
      THEN Returned(EmptyFrame)
      ELSE normalize_download(answer)

\* _infer_resolution_seconds: 0 with fewer than three rows
infer_resolution(df) == IF df.rows < 3 THEN 0 ELSE df.spacing

\* _expected_max_resolution_seconds
expected_max_resolution(interval) ==
    CASE interval \in {"60m", "1h"} -> 2 * HOUR
      [] interval = "1d" -> 2 * DAY
      [] OTHER -> 0

\* The validation of a fetched intraday frame, lines 222-237
usable(interval, df) ==
    /\ df.rows > 0
    /\ expected_max_resolution(interval) > 0 =>
          /\ infer_resolution(df) # 0
          /\ infer_resolution(df) <= expected_max_resolution(interval)

\* q with the elements of extra it does not hold yet appended, lines 217-219
RECURSIVE AppendMissing(_, _)
AppendMissing(q, extra) ==
    IF extra = <<>> THEN q
    ELSE AppendMissing(IF \E i \in 1 .. Len(q) : q[i] = Head(extra) THEN q
                       ELSE Append(q, Head(extra)),
                       Tail(extra))

\* The periods _download_with_fallback tries, lines 203-219
fallback_periods(interval, period) ==
    IF interval \notin INTRADAY_INTERVALS THEN <<period>>
    ELSE AppendMissing(IF period \in {"max", "730d", "365d", "180d"} THEN <<"60d">>
                       ELSE IF period # "" THEN <<period>>
                       ELSE <<>>,
                       <<"60d", "30d", "7d">>)

\* _read_cache: empty when the file cannot be parsed
read_cache(c) == IF c.exists /\ c.readable THEN c.frame ELSE EmptyFrame

\* config.CACHE_TTL, and the default of load_ohlc for other intervals
CACHE_TTL(interval) ==
    CASE interval = "1d" -> 12 * HOUR
      [] interval = "60m" -> HOUR
      [] OTHER -> 2 * HOUR

\* (mutant) a cache as old as max_age counted as stale
is_cache_fresh_strict(c, max_age_seconds) == c.exists /\ c.age < max_age_seconds

\* _is_cache_fresh
is_cache_fresh(c, max_age_seconds) == c.exists /\ c.age <= max_age_seconds

\* main._is_ok_base_for_60m, main._is_ok_base_for_1d
is_ok_base_for_60m(df) == infer_resolution(df) # 0 /\ infer_resolution(df) <= 2 * HOUR
is_ok_base_for_1d(df) == infer_resolution(df) # 0 /\ infer_resolution(df) >= 12 * HOUR

----------------------------------------------------------------------------
(* Operations of the loader *)

Intervals == {"1d", "60m"}
PeriodHints == {"", "max", "1y", "60d", "30d", "7d"}

\* What a cache file may hold: nothing that parses, or bars of the interval
\* written by an earlier call; its age is just below, at, or just above the
\* interval's max_age
CachedBars(interval) == [rows |-> 3, spacing |-> IF interval = "1d" THEN DAY ELSE HOUR]
CacheStates(interval) ==
    {NoCache}
      \cup {[exists |-> TRUE, age |-> CACHE_TTL(interval) + d, readable |-> FALSE,
             frame |-> EmptyFrame] : d \in {0 - 1, 0, 1}}
      \cup {[exists |-> TRUE, age |-> CACHE_TTL(interval) + d, readable |-> TRUE,
             frame |-> CachedBars(interval)] : d \in {0 - 1, 0, 1}}

\* load_ohlc, lines 263-278: the fresh cache is served, or the fetch begins
LoadStart ==
    /\ ld_pc = "idle"
    /\ \E i \in Intervals, p \in PeriodHints :
       \E found \in CacheStates(i) :
         LET hit == is_cache_fresh(found, CACHE_TTL(i)) /\ read_cache(found).rows > 0
         IN  /\ ld_interval' = i
             /\ ld_period' = p
             /\ cache' = found
             /\ cache0' = found
             /\ chain' = IF hit THEN <<>> ELSE fallback_periods(i, p)
             /\ ld_result' = IF hit THEN read_cache(found) ELSE EmptyFrame
             /\ ld_pc' = IF hit THEN "returned" ELSE "fetching"
             /\ UNCHANGED <<requests, vendor_said, ld_data, cache_write, derived_ok,
                            late_workers, nonLoad>>

\* _download_with_fallback: one request to the vendor and what is made of
\* its answer
VendorRequest ==
    /\ ld_pc = "fetching"
    /\ chain # <<>>
    /\ \E answer \in VendorAnswers :
         LET r == download_yf_with_timeout(answer)
             oneShot == ld_interval \notin INTRADAY_INTERVALS
             good == ~r.raised /\ (oneShot \/ usable(ld_interval, r.frame))
             last == Len(chain) = 1
         IN  /\ requests' = Append(requests, Head(chain))
             /\ vendor_said' = answer
             /\ chain' = Tail(chain)
             /\ ld_data' = IF good THEN r.frame ELSE EmptyFrame
             /\ ld_pc' = IF r.raised THEN "raised"
                         ELSE IF good \/ last THEN "fetched"
                         ELSE "fetching"
             /\ late_workers' =
                   IF answer.kind = "timeout"
                     THEN Append(late_workers,
                                 [period |-> Head(chain), done |-> FALSE,
                                  out |-> [rows |-> answer.rows, spacing |-> answer.spacing]])
                     ELSE late_workers
             /\ UNCHANGED <<ld_interval, ld_period, cache, cache0, ld_result, cache_write,
                            derived_ok, nonLoad>>

\* load_ohlc, lines 283-296: the stale cache on an empty fetch, else the
\* fetched frame, written to the cache unless the write fails
LoadFinish ==
    /\ ld_pc = "fetched"
    /\ \E written \in BOOLEAN :
         /\ IF ld_data.rows = 0
              THEN /\ ld_result' = read_cache(cache)
                   /\ written
                   /\ UNCHANGED <<cache, cache_write>>
              ELSE /\ ld_result' = ld_data
                   /\ cache_write' = IF written THEN "ok" ELSE "failed"
                   /\ cache' = IF written
                                 THEN [exists |-> TRUE, age |-> 0, readable |-> TRUE,
                                       frame |-> ld_data]
                                 ELSE cache
    /\ ld_pc' = "returned"
    /\ UNCHANGED <<ld_interval, ld_period, cache0, chain, requests, vendor_said, ld_data,
                   derived_ok, late_workers, nonLoad>>

\* main.build_timeframe_frames, lines 104-118: whether the timeframes
\* derived from this feed are built
CheckBase ==
    /\ ld_pc = "returned"
    /\ derived_ok' = /\ ld_result.rows > 0
                     /\ IF ld_interval = "60m" THEN is_ok_base_for_60m(ld_result)
                                                ELSE is_ok_base_for_1d(ld_result)
    /\ ld_pc' = "framed"
    /\ UNCHANGED <<ld_interval, ld_period, cache, cache0, chain, requests, vendor_said,
                   ld_data, ld_result, cache_write, late_workers, nonLoad>>

\* _worker, lines 163-177, in a thread abandoned at its deadline: yf.download
\* returns at last and the table is stored in the "out" of that call, which
\* nothing reads any more
WorkerFinishesLate ==
    /\ \E i \in 1 .. Len(late_workers) :
         /\ ~late_workers[i].done
         /\ late_workers' = [late_workers EXCEPT ![i].done = TRUE]
    /\ UNCHANGED <<ld_pc, ld_interval, ld_period, cache, cache0, chain, requests, vendor_said,
                   ld_data, ld_result, cache_write, derived_ok, nonLoad>>

NextLoad == LoadStart \/ VendorRequest \/ LoadFinish \/ CheckBase \/ WorkerFinishesLate

SpecLoad == Init /\ [][NextLoad]_vars

----------------------------------------------------------------------------
(* Properties of the loader *)

\* C17: load_ohlc never raises: for every vendor outcome and every cache
\* state it returns a frame, possibly empty.
C17_LoadNeverRaises == ld_pc # "raised"

oneShotOrUsable == ld_interval \notin INTRADAY_INTERVALS \/ usable(ld_interval, ld_data)
CacheHit ==
    /\ cache0.exists /\ cache0.age <= CACHE_TTL(ld_interval)
    /\ cache0.readable /\ cache0.frame.rows > 0
StaleFrame == IF cache0.exists /\ cache0.readable THEN cache0.frame ELSE EmptyFrame

PeriodDays(p) ==
    CASE p = "7d" -> 7 [] p = "30d" -> 30 [] p = "60d" -> 60 [] p = "1y" -> 365
      [] p = "max" -> 36500 [] OTHER -> 0

IsPrefix(q, full) == Len(q) <= Len(full) /\ \A i \in 1 .. Len(q) : q[i] = full[i]

\* C19: for an intraday interval, whatever the caller's period hint, no
\* request asks for more than 60 days and the periods are tried in the order
\* 60d, 30d, 7d, stopping at the first usable response; for the daily
\* interval exactly one request, with the caller's hint, is made.
C19_FallbackPeriods ==
    IF ld_interval \in INTRADAY_INTERVALS
      THEN /\ \A i \in 1 .. Len(requests) : PeriodDays(requests[i]) <= 60
           /\ IsPrefix(requests, <<"60d", "30d", "7d">>)
           /\ ld_data.rows > 0 =>
                 ld_pc # "fetching" /\ usable(ld_interval, [rows |-> vendor_said.rows, spacing |-> vendor_said.spacing])
      ELSE ld_pc \in {"fetched", "returned", "framed"} /\ ~CacheHit
              => requests = <<ld_period>>

\* C20: a 60m vendor response whose median spacing is 2 hours or more is
\* rejected by the fetcher, and for such a 60m base the derived 2H/3H/4H
\* timeframes are skipped.
C20_CoarseBaseRejected ==
    /\ (/\ ld_interval = "60m"
        /\ vendor_said.kind = "bars" /\ vendor_said.rows >= 3
        /\ vendor_said.spacing >= 2 * HOUR)
       => ld_data.rows = 0
    /\ (ld_pc = "framed" /\ ld_interval = "60m" /\ ld_result.spacing >= 2 * HOUR)
       => ~derived_ok

----------------------------------------------------------------------------
(* main.main: one run.  load_universe (the reference tables, the rotation   *)
(* state), the per-symbol loop, the publication.                            *)

MaxBars == 1       \* bars each reference frame closes after the start

\* _fetch_table: a table, no table at all, or pd.read_html raising
FetchAnswers == {"table", "empty", "failed"}

\* _load_stocks_biggest, _load_etfs_all: the fresh cache is read; otherwise
\* the table is fetched, and a fetch that fails or comes back empty raises,
\* whether or not an older cached copy is on disk
load_table(cached, answer) ==
    IF cached = "fresh" THEN "cache"
    ELSE IF answer = "table" THEN "fetched"
    ELSE "raised"

\* _read_state on the file as it is on disk: a text that is not complete
\* does not parse, and the answer is {"offset": 0} as for a missing file
parsed_state(file, chunks) ==
    IF chunks = CHUNKS THEN file ELSE [exists |-> FALSE, offset |-> 0]

\* What scan_ticker hands to main(): ([], None) without daily history,
\* ([], context_row) without signals, or an exception.  No row is ever
\* built, since every signal raises at line 374 (NameCandle) before
\* rows.append; "ctx" says whether the context row had been built when
\* scan_ticker ended.
ScanOutcomes ==
    {[kind |-> k, rows |-> <<>>, ctx |-> c] : k \in {"returned", "raised"}, c \in BOOLEAN}

\* (mutant) the loop without its try/except
scan_iteration_propagating(rows_acc, ctx_acc, ticker, outcome) ==
    [all_rows |-> IF outcome.kind = "returned" THEN rows_acc \o outcome.rows ELSE rows_acc,
     context_rows |-> IF outcome.kind = "returned" /\ outcome.ctx
                        THEN Append(ctx_acc, ticker) ELSE ctx_acc,
     propagated |-> outcome.kind = "raised"]

\* main(), lines 428-435: one iteration of the loop over the tickers
scan_iteration(rows_acc, ctx_acc, ticker, outcome) ==
    IF outcome.kind = "raised"
      THEN [all_rows |-> rows_acc, context_rows |-> ctx_acc, propagated |-> FALSE]
      ELSE [all_rows |-> rows_acc \o outcome.rows,
            context_rows |-> IF outcome.ctx THEN Append(ctx_acc, ticker) ELSE ctx_acc,
            propagated |-> FALSE]

\* scheduler.should_run_for_any_timeframe on the recorded and the current
\* last-closed timestamps (NoTs: no data for the timeframe)
should_run_for_any_timeframe(recorded, closed) ==
    \E t \in GATE_TFS : closed[t] # NoTs /\ recorded[t] # closed[t]

\* scheduler.record_timeframes_run; main() never calls it
record_timeframes_run(recorded, closed) ==
    [t \in GATE_TFS |-> IF closed[t] = NoTs THEN recorded[t] ELSE closed[t]]

\* config.py for the runs of main(): one priority stock, a rotation of two
MAIN_CFG ==
    [PRIORITY_TOP_STOCKS |-> 1, PRIORITY_PER_RUN |-> 1, MAX_TICKERS_PER_RUN |-> 3,
     DEV_MODE |-> FALSE, DEV_TICKERS_LIMIT |-> Len(CORE_ETFS)]

InitMain ==
    /\ DetectIdle
    /\ ScanIdle
    /\ PublishIdle
    /\ LoadIdle
    /\ ResampleIdle
    /\ UniverseIdle
    /\ MainIdle
    /\ cfg = MAIN_CFG
    /\ stocks_df = STOCK_ROWS
    /\ etfs_df = ETF_ROWS
    /\ state_file \in {[exists |-> FALSE, offset |-> 0], [exists |-> TRUE, offset |-> MaxOffset]}
    /\ state_prev = state_file
    /\ table_cache \in [TABLES -> {"absent", "fresh", "stale"}]

Running == main_pc \in {"tables", "state_open", "state_dump", "scan"}

\* main() is started (no gate is consulted, lines 411-417)
StartRun ==
    /\ ~Running
    /\ main_run < MaxRuns
    /\ main_run' = main_run + 1
    /\ main_pc' = "tables"
    /\ refresh_said' = [t \in TABLES |-> "none"]
    /\ tables_from' = [t \in TABLES |-> "none"]
    /\ state_prev' = state_file
    /\ tickers' = <<>>
    /\ scan_log' = <<>>
    /\ all_rows' = <<>>
    /\ context_rows' = <<>>
    /\ stale_run' = (closed_at_done = closed_ts)
    /\ UNCHANGED <<table_cache, state_chunks, state_next, last_run, closed_ts, closed_at_done,
                   uniVars, pubVars, nonMain>>

\* load_universe, lines 265-305: the stocks table, then the ETF table, then
\* the universe and the next offset; main() line 418 cuts the universe again
LoadTables ==
    /\ main_pc = "tables"
    /\ \E a_s \in (IF table_cache["stocks"] = "fresh" THEN {"none"} ELSE FetchAnswers) :
         LET from_s == load_table(table_cache["stocks"], a_s) IN
         \E a_e \in (IF from_s = "raised" \/ table_cache["etfs"] = "fresh"
                       THEN {"none"} ELSE FetchAnswers) :
            LET from_e == IF from_s = "raised" THEN "none"
                          ELSE load_table(table_cache["etfs"], a_e)
                ok == from_s # "raised" /\ from_e # "raised"
                r == load_universe(cfg, stocks_df, etfs_df, parsed_state(state_file, state_chunks))
            IN  /\ refresh_said' = [t \in TABLES |-> IF t = "stocks" THEN a_s ELSE a_e]
                /\ tables_from' = [t \in TABLES |-> IF t = "stocks" THEN from_s ELSE from_e]
                /\ table_cache' = [t \in TABLES |->
                                     IF (IF t = "stocks" THEN from_s ELSE from_e) = "fetched"
                                       THEN "fresh" ELSE table_cache[t]]
                /\ main_pc' = IF ok THEN "state_open" ELSE "aborted"
                /\ state_next' = IF ok THEN r.offset ELSE state_next
                /\ tickers' = IF ok
                                THEN (IF cfg.DEV_MODE THEN Take(r.universe, cfg.DEV_TICKERS_LIMIT)
                                      ELSE r.universe)
                                ELSE <<>>
    /\ UNCHANGED <<main_run, state_chunks, state_prev, scan_log, all_rows, context_rows,
                   last_run, closed_ts, closed_at_done, stale_run, uniVars, pubVars, nonMain>>

\* _write_state, line 164: open(CACHE_STATE, "w") truncates state.json
OpenState ==
    /\ main_pc = "state_open"
    /\ state_file' = [exists |-> TRUE, offset |-> state_next]
    /\ state_chunks' = 0
    /\ main_pc' = "state_dump"
    /\ UNCHANGED <<main_run, table_cache, refresh_said, tables_from, state_prev, state_next,
                   tickers, scan_log, all_rows, context_rows, last_run, closed_ts,
                   closed_at_done, stale_run, pubVars, nonMain,
                   cfg, stocks_df, etfs_df, offset_read, expansion_pool, priority_batch,
                   rotation_batch, universe, universes, batches, offsets, runs>>

\* _write_state, line 165: json.dump writes the text into it, chunk by chunk
DumpState ==
    /\ main_pc = "state_dump"
    /\ state_chunks' = state_chunks + 1
    /\ main_pc' = IF state_chunks + 1 = CHUNKS THEN "scan" ELSE "state_dump"
    /\ UNCHANGED <<main_run, table_cache, refresh_said, tables_from, state_prev, state_next,
                   tickers, scan_log, all_rows, context_rows, last_run, closed_ts,
                   closed_at_done, stale_run, uniVars, pubVars, nonMain>>

\* main(), lines 428-435, for the next ticker
ScanTicker ==
    /\ main_pc = "scan"
    /\ Len(scan_log) < Len(tickers)
    /\ \E outcome \in ScanOutcomes :
         LET ticker == tickers[Len(scan_log) + 1]
             r == scan_iteration(all_rows, context_rows, ticker, outcome)
         IN  /\ all_rows' = r.all_rows
             /\ context_rows' = r.context_rows
             /\ scan_log' = Append(scan_log, [ticker |-> ticker, kind |-> outcome.kind,
                                              ctx |-> outcome.ctx])
             /\ main_pc' = IF r.propagated THEN "aborted" ELSE "scan"
    /\ UNCHANGED <<main_run, table_cache, refresh_said, tables_from, state_chunks, state_prev,
                   state_next, tickers, last_run, closed_ts, closed_at_done, stale_run,
                   uniVars, pubVars, nonMain>>

\* main(), lines 437-448: the loop is over; write_snapshot and
\* _write_context_csv publish the rows (step by step in SpecPublish)
MainPublish ==
    /\ main_pc = "scan"
    /\ Len(scan_log) = Len(tickers)
    /\ pub_run' = pub_run + 1
    /\ prior_files' = files
    /\ files' = [f \in {"json", "csv", "ctx"} |-> Published(pub_run + 1)]
    /\ closed_at_done' = closed_ts
    /\ main_pc' = "done"
    /\ UNCHANGED <<main_run, table_cache, refresh_said, tables_from, state_chunks, state_prev,
                   state_next, tickers, scan_log, all_rows, context_rows, last_run, closed_ts,
                   stale_run, uniVars, pub_pc, tmp_files, failed_at, reader_saw, nonMain>>

\* The process is killed while it runs
Crash ==
    /\ Running
    /\ main_pc' = "crashed"
    /\ UNCHANGED <<main_run, table_cache, refresh_said, tables_from, state_chunks, state_prev,
                   state_next, tickers, scan_log, all_rows, context_rows, last_run, closed_ts,
                   closed_at_done, stale_run, uniVars, pubVars, nonMain>>

\* Between two runs UNIVERSE_CACHE_TTL_SEC goes by: the cached tables are stale
TablesAge ==
    /\ ~Running
    /\ \E t \in TABLES : table_cache[t] = "fresh"
    /\ table_cache' = [t \in TABLES |-> IF table_cache[t] = "fresh" THEN "stale"
                                         ELSE table_cache[t]]
    /\ UNCHANGED <<main_pc, main_run, refresh_said, tables_from, state_chunks, state_prev,
                   state_next, tickers, scan_log, all_rows, context_rows, last_run, closed_ts,
                   closed_at_done, stale_run, uniVars, pubVars, nonMain>>

\* A bar of a reference frame closes
NewBarCloses ==
    /\ \E t \in GATE_TFS :
         /\ closed_ts[t] < MaxBars
         /\ closed_ts' = [closed_ts EXCEPT ![t] = @ + 1]
    /\ UNCHANGED <<main_pc, main_run, table_cache, refresh_said, tables_from, state_chunks,
                   state_prev, state_next, tickers, scan_log, all_rows, context_rows, last_run,
                   closed_at_done, stale_run, uniVars, pubVars, nonMain>>

NextMain ==
    \/ StartRun \/ LoadTables \/ OpenState \/ DumpState \/ ScanTicker \/ MainPublish
    \/ Crash \/ TablesAge \/ NewBarCloses

SpecMain == InitMain /\ [][NextMain]_vars

----------------------------------------------------------------------------
(* Properties of a run of main() *)

RefreshFailed(t) == refresh_said[t] \in {"failed", "empty"}

\* C21: when refreshing a reference table fails and a cached copy of it is
\* on disk, even one older than the TTL, the cached copy is used and the run
\* continues; the run aborts only when the refresh fails and no cached copy
\* exists.
C21_RefreshFailureFallsBack ==
    /\ \A t \in TABLES :
         (RefreshFailed(t) /\ table_cache[t] # "absent")
            => (tables_from[t] = "cache" /\ main_pc # "aborted")
    /\ main_pc = "aborted" =>
         \E t \in TABLES : RefreshFailed(t) /\ table_cache[t] = "absent"

\* The tickers whose context row main() holds, given what scan_ticker did
ContextOf(log) ==
    LET kept == SelectSeq(log, LAMBDA e : e.kind = "returned" /\ e.ctx)
    IN  [i \in 1 .. Len(kept) |-> kept[i].ticker]

\* C22: an error raised while scanning one symbol never leaves the loop of
\* main(): the symbol contributes no result row and no context row, what was
\* collected for the other symbols is unchanged, every remaining symbol is
\* scanned, and the snapshot is written.
C22_ScanErrorsContained ==
    /\ main_pc = "aborted" => scan_log = <<>>
    /\ \A i \in 1 .. Len(scan_log) :
         scan_log[i].kind = "raised" =>
            /\ \A j \in 1 .. Len(context_rows) : context_rows[j] # scan_log[i].ticker
            /\ \A j \in 1 .. Len(all_rows) : all_rows[j].ticker # scan_log[i].ticker
    /\ context_rows = ContextOf(scan_log)
    /\ main_pc = "done" =>
         /\ Len(scan_log) = Len(tickers)
         /\ \A f \in {"json", "csv", "ctx"} : files[f] = Published(pub_run)

\* the second of three symbols raised after its context row was built; the
\* run went on and published the context rows of the other two
C22_Witness ==
    /\ main_pc = "done"
    /\ Len(scan_log) = 3
    /\ scan_log[1].kind = "returned" /\ scan_log[1].ctx
    /\ scan_log[2].kind = "raised" /\ scan_log[2].ctx
    /\ scan_log[3].kind = "returned" /\ scan_log[3].ctx
    /\ context_rows = <<tickers[1], tickers[3]>>
    /\ files["json"] = Published(pub_run)

\* C23: a run that follows a completed run while no timeframe's last-closed
\* timestamp has advanced scans nothing and leaves the published files as
\* they are; a completed run records the last-closed timestamps, so that
\* should_run_for_any_timeframe is false until a timeframe closes a new bar.
C23_GateSkipsIdleRun ==
    /\ stale_run => (scan_log = <<>> /\ (main_pc = "done" => files = prior_files))
    /\ (main_pc = "done" /\ closed_ts = closed_at_done)
          => ~should_run_for_any_timeframe(last_run, closed_ts)

\* C24: if the process crashes at any point while the offset is persisted,
\* state.json afterwards holds the complete previous or the complete new
\* offset, never a truncated text.
C24_StateSurvivesCrash ==
    main_pc = "crashed" =>
        /\ state_chunks = CHUNKS
        /\ state_file \in {state_prev, [exists |-> TRUE, offset |-> state_next]}

----------------------------------------------------------------------------
(* timeframes.resample.resample_timeframe *)

\* Targets whose rule has a fixed width ("2h", "3h", "4h") and calendar
\* targets ("W-FRI", "ME", "QE", "YE"), for which to_offset(rule).nanos raises
FIXED_TFS == {"2H", "3H", "4H"}
CALENDAR_TFS == {"W", "M", "Q", "Y"}

\* float("inf")
INF == 1000 * DAY

FrameLabels(frame) == {frame.start + i * frame.spacing : i \in 0 .. (frame.rows - 1)}

\* _infer_input_resolution_seconds: the median gap (here every gap is the
\* spacing), infinite with fewer than three rows
infer_input_resolution_seconds(frame) == IF frame.rows < 3 THEN INF ELSE frame.spacing

\* resample_timeframe on a frame with rows: the guard of lines 79-94 raises
\* ValueError; otherwise the non-empty right-closed, right-labelled buckets
resample_timeframe(frame, t, pend) ==
    LET input_sec == infer_input_resolution_seconds(frame)
        guarded == t \in FIXED_TFS
    IN  IF guarded /\ RuleWidth(t) < input_sec
          THEN [raised |-> TRUE, labels |-> {}]
          ELSE [raised |-> FALSE,
                labels |-> CASE t \in FIXED_TFS ->
                                   {IntradayLabel(t, s) : s \in FrameLabels(frame)}
                             [] t = "W" -> {WeekLabel(s) : s \in FrameLabels(frame)}
                             [] OTHER -> {PeriodLabel(s, pend) : s \in FrameLabels(frame)}]

\* Input frames: one to four rows from Wednesday 00:00 or 09:30, spaced one
\* hour up to one week
ResampleInputs ==
    [start : {0, OPEN_SLOT}, rows : 1 .. 4, spacing : {HOUR, 2 * HOUR, 4 * HOUR, DAY, 7 * DAY}]

ResampleCall ==
    /\ rs_in.rows = 0
    /\ \E frame \in ResampleInputs, t \in FIXED_TFS \cup CALENDAR_TFS, pend \in {2, 9} :
         /\ rs_in' = frame
         /\ rs_tf' = t
         /\ rs_out' = resample_timeframe(frame, t, pend)
    /\ UNCHANGED nonRes

NextResample == ResampleCall

SpecResample == Init /\ [][NextResample]_vars

\* C25: resample_timeframe called with a fixed-width target finer than the
\* inferred spacing of the input returns an empty frame, neither raising nor
\* fabricating bars; for the calendar targets W/M/Q/Y the guard is not applied.
C25_DownsampleReturnsEmpty ==
    rs_in.rows > 0 =>
        /\ (rs_tf \in FIXED_TFS /\ RuleWidth(rs_tf) < infer_input_resolution_seconds(rs_in))
              => (~rs_out.raised /\ rs_out.labels = {})
        /\ rs_tf \in CALENDAR_TFS => (~rs_out.raised /\ rs_out.labels # {})

----------------------------------------------------------------------------
(* Properties of the classifier, and the detector's worked example *)

\* C26: the first bar of a frame is unclassified and every later bar has
\* exactly one label: 1 iff high <= prev.high and low >= prev.low, 3 iff
\* high > prev.high and low < prev.low, 2U iff high > prev.high and low >=
\* prev.low, 2D iff low < prev.low and high <= prev.high; a bar identical to
\* its predecessor is 1.
C26_ExactlyOneLabel ==
    Scanned =>
        /\ df_tf[1].strat = "None"
        /\ \A i \in 2 .. Len(df_tf) :
             LET curr == df_tf[i]
                 prev == df_tf[i - 1]
             IN  /\ curr.strat \in STRATS
                 /\ (curr.strat = "1") <=> (curr.high <= prev.high /\ curr.low >= prev.low)
                 /\ (curr.strat = "3") <=> (curr.high > prev.high /\ curr.low < prev.low)
                 /\ (curr.strat = "2U") <=> (curr.high > prev.high /\ curr.low >= prev.low)
                 /\ (curr.strat = "2D") <=> (curr.low < prev.low /\ curr.high <= prev.high)
                 /\ (curr.high = prev.high /\ curr.low = prev.low) => curr.strat = "1"

\* an outside bar, then a bar identical to it (inside), then a lower low
C26_Witness ==
    /\ Scanned /\ Len(df_tf) = 4
    /\ df_tf[2].strat = "3"
    /\ df_tf[3].strat = "1" /\ df_tf[3].high = df_tf[2].high /\ df_tf[3].low = df_tf[2].low
    /\ df_tf[4].strat = "2D"

\* The worked example: a daily frame whose last closed pair is (2U, 1) with
\* prev = 105/95 and last = 103/98
ExamplePair ==
    /\ Scanned /\ tf = "D"
    /\ PrevClosed.strat = "2U" /\ LastClosed.strat = "1"
    /\ PrevClosed.high = Dollars(105) /\ PrevClosed.low = Dollars(95)
    /\ LastClosed.high = Dollars(103) /\ LastClosed.low = Dollars(98)

\* What the example states of a setup
Setup(sig) ==
    [tf |-> sig.tf, dir |-> sig.direction, entry |-> sig.entry, stop |-> sig.stop,
     pattern |-> sig.pattern, setup |-> sig.setup]

ExampleSetups(up, down) ==
    {[tf |-> "D", dir |-> "bull", entry |-> Dollars(103), stop |-> Dollars(98),
      pattern |-> "2U-1", setup |-> up],
     [tf |-> "D", dir |-> "bear", entry |-> Dollars(98), stop |-> Dollars(103),
      pattern |-> "2U-1", setup |-> down]}

\* C27 as stated: the detector returns exactly two setups on D, bull with
\* entry 103 and stop 98 and bear with entry 98 and stop 103, both of
\* pattern "2U-1", named INSIDE_BREAK_UP and INSIDE_BREAK_DOWN.
C27_InsideBreakExample ==
    ExamplePair =>
        /\ Len(signals) = 2
        /\ {Setup(signals[i]) : i \in 1 .. Len(signals)}
              = ExampleSetups("INSIDE_BREAK_UP", "INSIDE_BREAK_DOWN")

\* C27 amended: the same two setups, named "1-2 BREAK_UP" and "1-2 BREAK_DOWN".
C27_InsideBreakExampleAsNamed ==
    ExamplePair =>
        /\ Len(signals) = 2
        /\ {Setup(signals[i]) : i \in 1 .. Len(signals)}
              = ExampleSetups("1-2 BREAK_UP", "1-2 BREAK_DOWN")

\* the example pair followed by a bar still in progress
C27_Witness ==
    /\ ExamplePair
    /\ last_idx = -2
    /\ Len(signals) = 2
    /\ signals[1].setup = "1-2 BREAK_UP"

----------------------------------------------------------------------------
(* scheduler: the run gate's own idea of the last closed bar *)

\* _close_dt_for_period_end: CLOSE_HOUR:CLOSE_MINUTE = 16:30 on the label's date
close_dt_for_period_end(ts) == DateOf(ts) * DAY + 16 * HOUR + HALF_HOUR

\* dur_map of _last_closed_idx_intraday, for the timeframes of a whole
\* number of half hours
dur_map(t) ==
    CASE t = "30M" -> HALF_HOUR [] t = "1H" -> HOUR [] t = "2H" -> 2 * HOUR
      [] t = "3H" -> 3 * HOUR [] t = "4H" -> 4 * HOUR

\* _last_closed_idx_intraday: every label is read as the bar's start
last_closed_idx_intraday(df, t, n) ==
    IF Len(df) < 3 THEN -2
    ELSE LET last_ts == to_ny(Iloc(df, -1).timestamp) IN
         IF n < last_ts + dur_map(t) THEN -2 ELSE -1

\* _last_closed_idx_higher
last_closed_idx_higher(df, t, n) ==
    IF Len(df) < 3 THEN -2
    ELSE LET last_ts == to_ny(Iloc(df, -1).timestamp)
             close_dt == close_dt_for_period_end(last_ts)
         IN  IF n < close_dt THEN -2 ELSE -1

\* The index _compute_last_closed_ts reads the timestamp at, lines 140-146
compute_last_closed_idx(df, t, n) ==
    IF t \in {"5M", "10M", "15M", "30M", "1H", "2H", "3H", "4H"}
      THEN last_closed_idx_intraday(df, t, n)
      ELSE last_closed_idx_higher(df, t, n)

\* C28: the run gate and the setup detector agree on the last closed bar:
\* for every timeframe, frame and evaluation time the index used by
\* _compute_last_closed_ts equals last_closed_index(tf, frame); for 2H/3H/4H
\* both read the label as the bar's end, only 1H as its start.
C28_GateAgreesWithDetector ==
    OracleCalled =>
        /\ compute_last_closed_idx(df_tf, tf, now) = last_idx
        /\ tf \in {"2H", "3H", "4H"} =>
              (compute_last_closed_idx(df_tf, tf, now) = -1 <=> now >= LastLabel)

----------------------------------------------------------------------------
(* Properties of the vendor request's deadline *)

\* C29: a vendor request that has not completed at its deadline is
\* abandoned: _download_yf_with_timeout returns an empty frame for it, and
\* whatever the abandoned worker delivers later, at whatever moment, reaches
\* neither the frame load_ohlc returns nor the cache file.
C29_AbandonedWorkerNeverReaches ==
    /\ vendor_said.kind = "timeout" => (ld_pc # "raised" /\ ld_data = EmptyFrame)
    /\ \A i \in 1 .. Len(late_workers) :
         late_workers[i].out.rows = LATE_ROWS =>
            /\ ld_data.rows # LATE_ROWS
            /\ ld_result.rows # LATE_ROWS
            /\ cache.frame.rows # LATE_ROWS

\* the 60d request was abandoned, the 30d request answered in time; the late
\* table arrived before load_ohlc returned the 30d frame and cached it
C29_Witness ==
    /\ ld_pc = "returned"
    /\ requests = <<"60d", "30d">>
    /\ Len(late_workers) = 1
    /\ late_workers[1].done /\ late_workers[1].out.rows = LATE_ROWS
    /\ ld_result.rows = 3
    /\ cache_write = "ok" /\ cache.frame = ld_result

----------------------------------------------------------------------------
(* Properties of the universe's coverage *)

\* C30: every eligible stock (market cap >= min_market_cap, with a symbol
\* that survives normalisation) is reachable: after a run it is either in
\* the run's priority batch or a member of the expansion pool, whatever
\* priority_top_stocks and priority_per_run are.
C30_EveryEligibleStockReachable ==
    runs > 0 =>
        \A i \in 1 .. Len(stocks_df) :
            LET sym == normalize_symbol(stocks_df[i].Symbol) IN
            (stocks_df[i].market_cap_int >= MIN_MARKET_CAP /\ sym # "") =>
                \/ \E j \in 1 .. Len(priority_batch) : priority_batch[j] = sym
                \/ \E j \in 1 .. Len(expansion_pool) : expansion_pool[j] = sym

====
